---- MODULE Spec2Model ----
(***************************************************************************)
(* Strategy validation and benchmarking pipeline of community-strategies:  *)
(*   scripts/check_strategy_requirements.py   static analyzer              *)
(*   scripts/validate_strategy_metadata.py    dynamic load and validation  *)
(*   scripts/benchmark_strategies.py          benchmark harness, aggregator*)
(*   src/yss_strategies/base.py, contributed/__init__.py,                  *)
(*   contributed/example_strategy.py                                       *)
(***************************************************************************)
EXTENDS Integers, Sequences, FiniteSets, TLC

VARIABLES
    \* ---- static analyzer and the stages that load a file
    file,              \* the strategy file on disk: name, status, AST nodes, text matches
    report,            \* the report analyze_imports returned for it, or NoReport
    executed,          \* stage -> what the stage did with the file's module
    content,           \* what check_strategy_requirements measures and finds in the text
    requirements,      \* the result of check_strategy_requirements, or NoRequirements
    \* ---- ExampleStrategy instances driven by a caller
    strategies,        \* instance id -> NoInstance or the instance's attributes
    given,             \* instance id -> the keyword arguments it was constructed with
    info,              \* the dict the newest get_info() of instance 1 returned
    queue,             \* calls made on instance 1 and not yet repeated on instance 2
    last_call,         \* instance id -> the last place_bet call: game state and decision
    loss_run,          \* decisions of instance 1 since a first bet, on non-red outcomes
    \* ---- one benchmark session (run_strategy_benchmark)
    pc,                \* position in run_strategy_benchmark
    spin,              \* loop index of the round in progress
    game_state,        \* MockGameState
    bet_info,          \* the decision place_bet returned in this round
    totals,            \* total_bet_amount, max_bet, min_bet, bet_count
    errors,            \* exceptions counted so far
    results,           \* the results dict of the session
    generated_in,      \* round in which the newest outcome of history was generated
    benchmark_class,   \* strategy_class of run_strategy_benchmark, or NoClass
    first_none,        \* the round and game state of the first None decision
    \* ---- worker pool sharing the random module
    rng,               \* state of the process-wide random generator
    workers,           \* worker -> position, loop index and history of its session
    \* ---- collection loop and verdict of benchmark_all_strategies
    n_files,           \* len(strategy_files)
    all_results,       \* results collected from the futures
    failed_strategies, \* names collected as failed
    collected,         \* number of futures handled so far
    verdict,           \* return value, or NoVerdict
    executor,          \* the ThreadPoolExecutor: "open", or "shutdown" once left
    results_file,      \* what benchmark_results.json holds, or NoFile
    \* ---- validate_strategy_file over the contributed directory
    directory,         \* file name -> the module the file holds, or Absent
    sys_modules,       \* names of the contributed modules cached in sys.modules
    validation         \* file name -> what validate_strategy_file returned for it

None == "None"

analyzeVars  == <<file, report, executed, content, requirements>>
strategyVars == <<strategies, given, info, queue, last_call, loss_run>>
benchVars    ==
    <<pc, spin, game_state, bet_info, totals, errors, results, generated_in, benchmark_class,
      first_none>>
poolVars     == <<rng, workers>>
aggVars      ==
    <<n_files, all_results, failed_strategies, collected, verdict, executor, results_file>>
validateVars == <<directory, sys_modules, validation>>
vars == <<analyzeVars, strategyVars, benchVars, poolVars, aggVars, validateVars>>

(***************************************************************************)
(* Bounds of the model                                                     *)
(***************************************************************************)
MaxNodes == 2        \* AST nodes of interest in a source file
MaxLosses == 8       \* cap of an instance's consecutive_losses counter
MaxLag == 2          \* calls instance 2 may be behind instance 1
MaxRun == 8          \* longest run of losing calls that is recorded
NumSpins == 12       \* num_spins of the benchmark session
ExampleSpins == 72   \* num_spins of the session that drives ExampleStrategy
PoolSpins == 2       \* num_spins of each session of the worker pool
MaxFiles == 15       \* most strategy files in the directory
MaxFailures == 3     \* most files of one run that do not succeed

(***************************************************************************)
(* StrategyDependencyChecker: the three module lists                       *)
(***************************************************************************)
allowed_stdlib ==
    {"math", "random", "itertools", "collections", "functools",
     "operator", "json", "time", "datetime", "decimal", "fractions",
     "statistics", "copy", "typing", "dataclasses", "enum", "abc"}

allowed_packages == {"numpy", "scipy", "pandas", "matplotlib", "seaborn"}

forbidden ==
    {"os", "sys", "subprocess", "threading", "multiprocessing",
     "socket", "urllib", "requests", "http", "ftplib", "smtplib",
     "sqlite3", "mysql", "psycopg2", "pymongo", "redis",
     "pickle", "shelve", "dbm", "marshal", "eval", "exec",
     "open", "file", "__import__", "importlib"}

\* The names tested on ast.Call nodes whose func is a plain Name.
dangerous_names == {"eval", "exec", "open", "__import__"}

\* The regular expressions searched in the raw text, in list order.
file_patterns ==
    <<"open\\s*\\(", "with\\s+open\\s*\\(", "file\\s*\\(", "\\.read\\s*\\(",
      "\\.write\\s*\\(", "\\.save\\s*\\(", "\\.load\\s*\\(">>

(***************************************************************************)
(* Source files.  A dotted module name "a.b" is the sequence <<"a","b">>   *)
(* of its components, so name.split('.')[0] is Head(name).  nodes are the  *)
(* Import / ImportFrom / Call nodes in ast.walk order; the func of a Call   *)
(* is an ast.Name, as in eval(x), or an ast.Attribute, as in builtins.eval(x).*)
(* text is the set of file_patterns that re.search finds in the content.   *)
(***************************************************************************)
TopLevel(name) == Head(name)

\* node.module of "from . import x" is None.
NoModule == <<>>

\* No report yet.
NoReport == [file |-> None]

ImportNames == {<<"os", "path">>, <<"math">>, <<"foo">>}
FromModules == {<<"socket">>, <<"os", "path">>, <<"numpy", "linalg">>, <<"bar">>}
Name(id)           == [type |-> "Name", id |-> id]
AttributeNode(attr) == [type |-> "Attribute", attr |-> attr]
CallFuncs   == {Name("eval"), Name("open"), Name("print"), AttributeNode("eval")}

\* The function a call expression names: f of f(...) and of module.f(...).
Called(func) == IF func.type = "Name" THEN func.id ELSE func.attr

AliasLists == {<<n>> : n \in ImportNames}
                \cup {<<n, m>> : n \in {<<"math">>}, m \in ImportNames}

Nodes ==
    {[kind |-> "Import", names |-> a] : a \in AliasLists}
      \cup {[kind |-> "ImportFrom", module |-> m] : m \in FromModules \cup {NoModule}}
      \cup {[kind |-> "Call", func |-> f] : f \in CallFuncs}

NodeSeqs == UNION {[1..n -> Nodes] : n \in 0..MaxNodes}

TextMatches == {{}, {1}, {4}}

\* A call open(...) in the tree is also a match of the first text pattern.
Consistent(nodes, text) ==
    (\E i \in 1..Len(nodes) : nodes[i].kind = "Call" /\ Called(nodes[i].func) = "open")
        => 1 \in text

Files ==
    {[name |-> "a.py", status |-> "ok", nodes |-> ns, text |-> tx] :
        ns \in NodeSeqs, tx \in TextMatches}
      \cup {[name |-> "a.py", status |-> st, nodes |-> <<>>, text |-> {}] :
              st \in {"unreadable", "syntax_error", "parse_raises"}}
      \cup {[name |-> "__init__.py", status |-> "ok", nodes |-> <<>>, text |-> {}]}

(***************************************************************************)
(* analyze_imports                                                         *)
(***************************************************************************)
NewReport(f) ==
    [file |-> f.name, imports |-> <<>>, forbidden_imports |-> <<>>,
     unknown_imports |-> <<>>, valid |-> TRUE, errors |-> <<>>]

\* One alias of an ast.Import node.
ClassifyImport(res, name) ==
    LET module_name == TopLevel(name)
        r1 == [res EXCEPT !.imports = Append(@, name)]
    IN  IF module_name \in forbidden
        THEN [r1 EXCEPT !.forbidden_imports = Append(@, name), !.valid = FALSE]
        ELSE IF module_name \notin allowed_stdlib /\ module_name \notin allowed_packages
             THEN [r1 EXCEPT !.unknown_imports = Append(@, name)]
             ELSE r1

\* Mutant of ClassifyImportFrom: the whole dotted name is looked up in the
\* deny-list instead of its first component.
ClassifyImportFromWholeName(res, module) ==
    LET r1 == [res EXCEPT !.imports = Append(@, module)]
    IN  IF Len(module) = 1 /\ module[1] \in forbidden
        THEN [r1 EXCEPT !.forbidden_imports = Append(@, module), !.valid = FALSE]
        ELSE IF TopLevel(module) \notin allowed_stdlib
                  /\ TopLevel(module) \notin allowed_packages
             THEN [r1 EXCEPT !.unknown_imports = Append(@, module)]
             ELSE r1

\* The module of an ast.ImportFrom node (node.module is not None).
ClassifyImportFrom(res, module) ==
    LET module_name == TopLevel(module)
        r1 == [res EXCEPT !.imports = Append(@, module)]
    IN  IF module_name \in forbidden
        THEN [r1 EXCEPT !.forbidden_imports = Append(@, module), !.valid = FALSE]
        ELSE IF module_name \notin allowed_stdlib /\ module_name \notin allowed_packages
             THEN [r1 EXCEPT !.unknown_imports = Append(@, module)]
             ELSE r1

RECURSIVE ImportAliases(_, _)
ImportAliases(res, names) ==
    IF names = <<>> THEN res
    ELSE ImportAliases(ClassifyImport(res, Head(names)), Tail(names))

RECURSIVE WalkImports(_, _)
WalkImports(res, nodes) ==
    IF nodes = <<>> THEN res
    ELSE LET node == Head(nodes)
             r1 == IF node.kind = "Import" THEN ImportAliases(res, node.names)
                   ELSE IF node.kind = "ImportFrom"
                        THEN IF node.module # NoModule
                             THEN ClassifyImportFrom(res, node.module)
                             ELSE res
                        ELSE res
         IN  WalkImports(r1, Tail(nodes))

RECURSIVE DangerousCalls(_)
DangerousCalls(nodes) ==
    IF nodes = <<>> THEN <<>>
    ELSE LET node == Head(nodes)
         IN  IF node.kind = "Call" /\ node.func.type = "Name"
                   /\ node.func.id \in dangerous_names
             THEN <<node.func.id>> \o DangerousCalls(Tail(nodes))
             ELSE DangerousCalls(Tail(nodes))

RECURSIVE AsNames(_)
AsNames(funcs) ==
    IF funcs = <<>> THEN <<>> ELSE <<(<<Head(funcs)>>)>> \o AsNames(Tail(funcs))

WalkCalls(res, nodes) ==
    LET dangerous_calls == DangerousCalls(nodes)
        r1 == IF dangerous_calls # <<>> THEN [res EXCEPT !.valid = FALSE] ELSE res
    IN  IF dangerous_calls # <<>>
        THEN [r1 EXCEPT !.forbidden_imports = @ \o AsNames(dangerous_calls),
                        !.errors = Append(@, <<"Dangerous function calls",
                                               dangerous_calls>>)]
        ELSE r1

RECURSIVE ScanText(_, _, _)
ScanText(res, text, i) ==
    IF i > Len(file_patterns) THEN res
    ELSE IF i \in text
         THEN ScanText([res EXCEPT
                          !.errors = Append(@, <<"Potential file operation detected",
                                                 file_patterns[i]>>),
                          !.valid = FALSE], text, i + 1)
         ELSE ScanText(res, text, i + 1)

\* status "parse_raises": ast.parse raises an exception that is no SyntaxError
\* (a RecursionError on a deeply nested expression).
analyze_imports(f) ==
    IF f.status \in {"unreadable", "parse_raises"}
    THEN [NewReport(f) EXCEPT !.valid = FALSE, !.errors = <<(<<"Analysis error">>)>>]
    ELSE IF f.status = "syntax_error"
    THEN [NewReport(f) EXCEPT !.valid = FALSE, !.errors = <<(<<"Syntax error">>)>>]
    ELSE ScanText(WalkCalls(WalkImports(NewReport(f), f.nodes), f.nodes), f.text, 1)

(***************************************************************************)
(* check_strategy_requirements.  content holds the size in bytes, the line *)
(* count, whether 'class ' occurs, which of required_patterns and of       *)
(* suspicious_patterns re.search finds, and whether a docstring quote does.*)
(***************************************************************************)
MaxFileSize  == 102400       \* 100 * 1024 bytes
MaxLineCount == 1000

required_patterns == <<"def\\s+place_bet\\s*\\(", "def\\s+get_defaults\\s*\\(">>

suspicious_patterns ==
    <<"[\"'][A-Za-z]:\\\\", "[\"']/", "http[s]?://", "ftp://", "localhost",
      "127\\.0\\.0\\.1">>

NoRequirements == [file |-> None]

NewRequirements(f) ==
    [file |-> f.name, valid |-> TRUE, errors |-> <<>>, warnings |-> <<>>,
     import_check |-> NoReport]

RECURSIVE RequiredMethodPatterns(_, _, _)
RequiredMethodPatterns(res, c, i) ==
    IF i > Len(required_patterns) THEN res
    ELSE RequiredMethodPatterns(
            IF i \notin c.methods
            THEN [res EXCEPT !.valid = FALSE,
                             !.errors = Append(@, <<"Missing required method",
                                                    required_patterns[i]>>)]
            ELSE res,
            c, i + 1)

RECURSIVE SuspiciousPatterns(_, _, _)
SuspiciousPatterns(res, c, i) ==
    IF i > Len(suspicious_patterns) THEN res
    ELSE SuspiciousPatterns(
            IF i \in c.suspicious
            THEN [res EXCEPT !.warnings = Append(@, <<"Suspicious pattern detected",
                                                      suspicious_patterns[i]>>)]
            ELSE res,
            c, i + 1)

\* From "Line count check" to "Check for class definition".
ImportAnalysis(res, f, c) ==
    LET import_results == analyze_imports(f)
        r1 == IF c.line_count > MaxLineCount
              THEN [res EXCEPT !.warnings = Append(@, <<"File is quite large">>)]
              ELSE res
        r2 == [r1 EXCEPT !.import_check = import_results]
        r3 == IF ~import_results.valid
              THEN [r2 EXCEPT !.valid = FALSE, !.errors = @ \o import_results.errors]
              ELSE r2
        r4 == IF import_results.forbidden_imports # <<>>
              THEN [r3 EXCEPT !.errors = Append(@, <<"Forbidden imports",
                                                     import_results.forbidden_imports>>)]
              ELSE r3
    IN  IF import_results.unknown_imports # <<>>
        THEN [r4 EXCEPT !.warnings = Append(@, <<"Unknown imports (may need approval)",
                                                 import_results.unknown_imports>>)]
        ELSE r4

check_strategy_requirements(f, c) ==
    LET r1 == IF c.file_size > MaxFileSize
              THEN [NewRequirements(f) EXCEPT !.valid = FALSE,
                                              !.errors = <<(<<"File too large">>)>>]
              ELSE NewRequirements(f)
    IN  IF f.status = "unreadable"
        THEN [r1 EXCEPT !.valid = FALSE,
                        !.errors = Append(@, <<"Requirements check error">>)]
        ELSE LET r2 == ImportAnalysis(r1, f, c)
                 r3 == IF ~c.has_class
                       THEN [r2 EXCEPT !.valid = FALSE,
                                       !.errors = Append(@, <<"No class definition found">>)]
                       ELSE r2
                 r4 == RequiredMethodPatterns(r3, c, 1)
                 r5 == IF ~c.docstrings
                       THEN [r4 EXCEPT !.warnings = Append(@, <<"No docstrings found">>)]
                       ELSE r4
             IN  SuspiciousPatterns(r5, c, 1)

FileSizes  == {2048, MaxFileSize, MaxFileSize + 1}
LineCounts == {MaxLineCount, MaxLineCount + 1}

Contents ==
    {[file_size |-> fs, line_count |-> lc, has_class |-> hc, methods |-> ms,
      docstrings |-> ds, suspicious |-> su] :
        fs \in FileSizes, lc \in LineCounts, hc \in BOOLEAN, ms \in {{1, 2}, {1}},
        ds \in BOOLEAN, su \in {{}, {2, 3}}}

\* The content of a file like example_strategy.py.
PlainContent ==
    [file_size |-> 2048, line_count |-> MaxLineCount, has_class |-> TRUE,
     methods |-> {1, 2}, docstrings |-> TRUE, suspicious |-> {}]

(***************************************************************************)
(* The three entry points over the strategies directory.  Each globs *.py, *)
(* drops __init__.py and handles every remaining file.                     *)
(***************************************************************************)
Stages == {"validate", "benchmark"}

strategy_files(f) == IF f.name # "__init__.py" THEN {f} ELSE {}

\* Loading a module executes its top-level code; an unreadable or unparsable
\* file raises before any of it runs.
LoadModule(f) == IF f.status = "ok" THEN "executed" ELSE "load_failed"

\* check_all_requirements -> check_strategy_requirements -> analyze_imports
CheckAllRequirements ==
    /\ requirements = NoRequirements
    /\ strategy_files(file) # {}
    /\ requirements' = check_strategy_requirements(file, content)
    /\ report' = requirements'.import_check
    /\ UNCHANGED <<file, executed, content>>

\* validate_all_strategies -> validate_strategy_file -> importlib.import_module
ValidateAllStrategies ==
    /\ executed["validate"] = "not_run"
    /\ executed' = [executed EXCEPT !["validate"] =
                      IF strategy_files(file) = {} THEN "no_files" ELSE LoadModule(file)]
    /\ UNCHANGED <<file, report, content, requirements>>

\* benchmark_all_strategies -> run_strategy_benchmark -> spec.loader.exec_module
BenchmarkAllStrategies ==
    /\ executed["benchmark"] = "not_run"
    /\ executed' = [executed EXCEPT !["benchmark"] =
                      IF strategy_files(file) = {} THEN "no_files" ELSE LoadModule(file)]
    /\ UNCHANGED <<file, report, content, requirements>>

AnalyzeInit ==
    /\ file \in {f \in Files : Consistent(f.nodes, f.text)}
    /\ report = NoReport
    /\ executed = [s \in Stages |-> "not_run"]
    /\ content = PlainContent
    /\ requirements = NoRequirements

AnalyzeIdle ==
    /\ file = [name |-> "__init__.py", status |-> "ok", nodes |-> <<>>, text |-> {}]
    /\ report = NoReport
    /\ executed = [s \in Stages |-> "not_run"]
    /\ content = PlainContent
    /\ requirements = NoRequirements

(***************************************************************************)
(* Bet decisions: None, a dict bet_type -> amount, a number, anything else *)
(***************************************************************************)
NoneBet       == [kind |-> "None"]
DictBet(d)    == [kind |-> "dict", dict |-> d]
NumberBet(n)  == [kind |-> "number", value |-> n]
OtherBet      == [kind |-> "other"]
EmptyDict     == [k \in {} |-> 0]
RedBet(n)     == DictBet([red |-> n])

RECURSIVE SumValues(_, _)
SumValues(d, keys) ==
    IF keys = {} THEN 0
    ELSE LET k == CHOOSE x \in keys : TRUE
         IN  d[k] + SumValues(d, keys \ {k})

\* The amount a decision wagers, as the harness and the tests compute it.
bet_amount_of(bet) ==
    IF bet.kind = "dict"
    THEN IF DOMAIN bet.dict # {} THEN SumValues(bet.dict, DOMAIN bet.dict) ELSE 0
    ELSE IF bet.kind = "number" THEN bet.value
    ELSE 0

(***************************************************************************)
(* MockGameState                                                           *)
(***************************************************************************)
NoResult == -1       \* last_result is None

MockGameState ==
    [history |-> <<>>, last_result |-> NoResult, current_balance |-> 1000,
     total_bet |-> 0, spin_count |-> 0]

\* Mutant of add_result: spin_count is left as it was.
add_result_uncounted(gs, number) ==
    [gs EXCEPT !.history = Append(@, number), !.last_result = number]

add_result(gs, number) ==
    [gs EXCEPT !.history = Append(@, number),
               !.last_result = number,
               !.spin_count = @ + 1]

(***************************************************************************)
(* CommunityStrategy and ExampleStrategy                                   *)
(***************************************************************************)
red_numbers == {1, 3, 5, 7, 9, 12, 14, 16, 18, 19, 21, 23, 25, 27, 30, 32, 34, 36}

\* progression_multiplier is the float 2.0; int(n * 2.0) is n * 2 for every int n
\* of the model.
get_defaults ==
    [contributor_name |-> "YSS Team",
     strategy_description |-> "Simple Martingale progression on red",
     bankroll |-> 1000,
     base_bet |-> 10,
     target_profit |-> 100,
     max_consecutive_losses |-> 6,
     progression_multiplier |-> 2]

NoKwargs == [k \in {} |-> 0]

\* {**defaults, **kwargs}
MergeConfig(defaults, kwargs) ==
    [k \in DOMAIN defaults \cup DOMAIN kwargs |->
        IF k \in DOMAIN kwargs THEN kwargs[k] ELSE defaults[k]]

\* Mutant of initialize_state: last_bet_amount is kept at class level, so a new
\* instance starts from the value the first instance left there.
initialize_state_class_level(self) ==
    [self EXCEPT !.consecutive_losses = 0,
                 !.last_bet_amount =
                     IF "last_bet_amount" \in DOMAIN strategies[1]
                     THEN strategies[1].last_bet_amount ELSE 0]

\* ExampleStrategy._initialize_state
initialize_state(self) ==
    [self EXCEPT !.consecutive_losses = 0, !.last_bet_amount = 0]

\* CommunityStrategy.__init__
NewStrategy(kwargs) ==
    LET config == MergeConfig(get_defaults, kwargs)
    IN  initialize_state(
            [config |-> config,
             contributor_name |-> config.contributor_name,
             strategy_description |-> config.strategy_description,
             bankroll |-> IF "bankroll" \in DOMAIN config THEN config.bankroll ELSE 1000,
             base_bet |-> IF "base_bet" \in DOMAIN config THEN config.base_bet ELSE 10,
             consecutive_losses |-> 0,
             last_bet_amount |-> 0])

\* Mutant of get_info: 'config' is self.config itself and not a copy of it.
get_info_shared(self) ==
    [name |-> "ExampleStrategy",
     contributor_name |-> self.contributor_name,
     strategy_description |-> self.strategy_description,
     config |-> self.config,
     config_is_copy |-> FALSE]

\* CommunityStrategy.get_info.  config_is_copy tells that the dict under 'config'
\* is another object than self.config: self.config.copy() makes a new dict.
get_info(self) ==
    [name |-> "ExampleStrategy",
     contributor_name |-> self.contributor_name,
     strategy_description |-> self.strategy_description,
     config |-> self.config,
     config_is_copy |-> TRUE]

\* d[key] = value on a dict
SetItem(d, key, value) ==
    [k \in DOMAIN d \cup {key} |-> IF k = key THEN value ELSE d[k]]

\* Mutant of reset: the loss counter is cleared and last_bet_amount is kept.
reset_losses_only(self) == [self EXCEPT !.consecutive_losses = 0]

\* CommunityStrategy.reset
reset(self) == initialize_state(self)

Returned(self, bet) == [self |-> self, bet |-> bet]

\* Mutant of SafetyChecks: the cap of a quarter of the bankroll is missing.
SafetyChecksNoCap(self, gs, bet_amount) ==
    IF bet_amount > gs.current_balance
    THEN Returned(self, NoneBet)
    ELSE Returned(self, RedBet(bet_amount))

\* The "Safety checks" at the end of place_bet.  max_bet is bankroll * 0.25, and
\* bet_amount > bankroll * 0.25 exactly when 4 * bet_amount > bankroll.
SafetyChecks(self, gs, bet_amount) ==
    IF bet_amount > gs.current_balance
    THEN Returned(self, NoneBet)
    ELSE IF 4 * bet_amount > self.config.bankroll
         THEN Returned(self, NoneBet)
         ELSE Returned(self, RedBet(bet_amount))

\* Mutant of place_bet: at the loss limit the progression starts over.
place_bet_restarts(self, gs) ==
    LET base_bet   == self.config.base_bet
        max_losses == self.config.max_consecutive_losses
    IN  IF Len(gs.history) < 1
        THEN Returned([self EXCEPT !.last_bet_amount = base_bet], RedBet(base_bet))
        ELSE IF gs.last_result \in red_numbers
        THEN SafetyChecks([self EXCEPT !.consecutive_losses = 0,
                                       !.last_bet_amount = base_bet],
                          gs, base_bet)
        ELSE LET s1 == [self EXCEPT !.consecutive_losses = @ + 1]
             IN  IF s1.consecutive_losses >= max_losses
                 THEN Returned([s1 EXCEPT !.consecutive_losses = 0,
                                          !.last_bet_amount = base_bet], NoneBet)
                 ELSE LET multiplier == s1.config.progression_multiplier
                          bet_amount == s1.last_bet_amount * multiplier
                      IN  SafetyChecks([s1 EXCEPT !.last_bet_amount = bet_amount],
                                       gs, bet_amount)

\* ExampleStrategy.place_bet: the instance after the call and the decision.
place_bet(self, gs) ==
    LET base_bet   == self.config.base_bet
        max_losses == self.config.max_consecutive_losses
    IN  IF Len(gs.history) < 1
        THEN Returned([self EXCEPT !.last_bet_amount = base_bet], RedBet(base_bet))
        ELSE IF gs.last_result \in red_numbers
        THEN SafetyChecks([self EXCEPT !.consecutive_losses = 0,
                                       !.last_bet_amount = base_bet],
                          gs, base_bet)
        ELSE LET s1 == [self EXCEPT !.consecutive_losses = @ + 1]
             IN  IF s1.consecutive_losses >= max_losses
                 THEN Returned(s1, NoneBet)
                 ELSE LET multiplier == s1.config.progression_multiplier
                          bet_amount == s1.last_bet_amount * multiplier
                      IN  SafetyChecks([s1 EXCEPT !.last_bet_amount = bet_amount],
                                       gs, bet_amount)

(***************************************************************************)
(* A caller driving two instances: instance 1 with any game states,        *)
(* instance 2 with the game states instance 1 was given, in the same order.*)
(***************************************************************************)
NoInstance == [config |-> None]
NoCall     == [game_state |-> None]
NoRun      == [active |-> FALSE, bets |-> <<>>]
ResetCall  == [reset |-> TRUE]        \* the entry of the queue for a reset()

Outcomes  == {0, 1}          \* a non-red and a red number
Balances  == {5, 1000}
Overrides == {NoKwargs, [base_bet |-> 20, stop_loss |-> 50]}
NoInfo    == [name |-> None]
InfoKeys  == {"base_bet", "stop_loss"}   \* keys the caller writes in the returned dict

GameStates ==
    {[MockGameState EXCEPT !.current_balance = b] : b \in Balances}
      \cup {[add_result(MockGameState, o) EXCEPT !.current_balance = b] :
              o \in Outcomes, b \in Balances}

\* The smallest balance with which neither a first bet nor a doubled bet up to 160
\* is refused for lack of balance.
AmpleBalance(gs) == gs.current_balance >= 160

\* The record of a run: a first bet of a new default instance on an empty history,
\* then calls after non-red outcomes, all with an ample balance.
NextRun(run, before, gs, bet, first) ==
    IF first /\ Len(gs.history) < 1 /\ AmpleBalance(gs)
          /\ before.config = get_defaults
    THEN [active |-> TRUE, bets |-> <<bet>>]
    ELSE IF run.active /\ Len(gs.history) >= 1 /\ gs.last_result \notin red_numbers
              /\ AmpleBalance(gs) /\ Len(run.bets) < MaxRun
         THEN [run EXCEPT !.bets = Append(@, bet)]
         ELSE NoRun

Construct(i, kwargs) ==
    /\ strategies[i] = NoInstance
    /\ strategies' = [strategies EXCEPT ![i] = NewStrategy(kwargs)]
    /\ given' = [given EXCEPT ![i] = kwargs]
    /\ UNCHANGED <<info, queue, last_call, loss_run>>

\* get_info() on instance 1.
GetInfo ==
    /\ strategies[1] # NoInstance
    /\ info' = get_info(strategies[1])
    /\ UNCHANGED <<strategies, given, queue, last_call, loss_run>>

\* The caller writes into the dict it got: info['config'][key] = value.  The write
\* reaches the instance when that dict is the instance's own.
MutateInfo(key, value) ==
    /\ info # NoInfo
    /\ info' = [info EXCEPT !.config = SetItem(@, key, value)]
    /\ strategies' = IF info.config_is_copy THEN strategies
                     ELSE [strategies EXCEPT ![1].config = SetItem(@, key, value)]
    /\ UNCHANGED <<given, queue, last_call, loss_run>>

\* place_bet on instance 1 with a game state of the caller's choice.
PlaceBetFirst(gs) ==
    /\ strategies[1] # NoInstance
    /\ Len(queue) < MaxLag
    /\ (Len(gs.history) >= 1 /\ gs.last_result \notin red_numbers)
          => strategies[1].consecutive_losses < MaxLosses
    /\ LET r == place_bet(strategies[1], gs)
       IN  /\ strategies' = [strategies EXCEPT ![1] = r.self]
           /\ last_call' = [last_call EXCEPT ![1] =
                              [game_state |-> gs, bet |-> r.bet, expected |-> r.bet]]
           /\ queue' = Append(queue, [game_state |-> gs, bet |-> r.bet])
           /\ loss_run' = NextRun(loss_run, strategies[1], gs, r.bet,
                                  last_call[1] = NoCall)
    /\ UNCHANGED <<given, info>>

\* reset() on instance 1.
Reset ==
    /\ strategies[1] # NoInstance
    /\ Len(queue) < MaxLag
    /\ strategies' = [strategies EXCEPT ![1] = reset(strategies[1])]
    /\ queue' = Append(queue, ResetCall)
    /\ loss_run' = NoRun
    /\ UNCHANGED <<given, info, last_call>>

\* reset() on instance 2, where instance 1 was reset.
ResetSecond ==
    /\ strategies[2] # NoInstance
    /\ queue # <<>>
    /\ Head(queue) = ResetCall
    /\ strategies' = [strategies EXCEPT ![2] = reset(strategies[2])]
    /\ queue' = Tail(queue)
    /\ UNCHANGED <<given, info, last_call, loss_run>>

\* place_bet on instance 2 with the oldest game state not yet repeated.
PlaceBetSecond ==
    /\ strategies[2] # NoInstance
    /\ queue # <<>>
    /\ Head(queue) # ResetCall
    /\ LET c == Head(queue)
           r == place_bet(strategies[2], c.game_state)
       IN  /\ strategies' = [strategies EXCEPT ![2] = r.self]
           /\ last_call' = [last_call EXCEPT ![2] =
                              [game_state |-> c.game_state, bet |-> r.bet,
                               expected |-> c.bet]]
           /\ queue' = Tail(queue)
           /\ UNCHANGED <<given, info, loss_run>>

StrategyInit ==
    /\ strategies = [i \in 1..2 |-> NoInstance]
    /\ given = [i \in 1..2 |-> NoKwargs]
    /\ info = NoInfo
    /\ queue = <<>>
    /\ last_call = [i \in 1..2 |-> NoCall]
    /\ loss_run = NoRun

(***************************************************************************)
(* The random module: one generator for the whole process.  Stream is what *)
(* random.randint(0, 36) returns, call after call, once random.seed(42)    *)
(* has run; the state is the number of values drawn since the last seed.   *)
(***************************************************************************)
Stream ==
    <<7, 1, 17, 15, 14, 8, 6, 34, 5, 27, 2, 1, 5, 13, 14, 32, 1, 35, 12, 34,
      26, 14, 28, 17, 0, 10, 27, 21, 17, 9, 13, 21, 6, 5, 24, 6, 22, 22, 16, 2,
      29, 34, 7, 24, 5, 35, 18, 23, 36, 12, 4, 2, 14, 18, 5, 14, 6, 24, 17, 29,
      23, 10, 23, 22, 13, 17, 4, 10, 34, 15, 10, 29, 24, 17, 35, 14, 20, 3, 14, 2>>

Unseeded == -1

seed == 0

randint(state) == Stream[state + 1]

(***************************************************************************)
(* run_strategy_benchmark                                                  *)
(***************************************************************************)
ErrorBudget == 10
Infinity == 999999            \* float('inf')

NoMetrics == [spins_completed |-> -1]
NoClass == [name |-> <<>>]         \* strategy_class = None
NoNone == [seen |-> FALSE]
NoBetInfo == [kind |-> "unset"]

NewResults(name) ==
    [file |-> name, success |-> FALSE, error |-> None, metrics |-> NoMetrics]

NewTotals == [total_bet_amount |-> 0, max_bet |-> 0, min_bet |-> Infinity, bet_count |-> 0]

Max(a, b) == IF a >= b THEN a ELSE b
Min(a, b) == IF a <= b THEN a ELSE b

\* What place_bet of the strategy under benchmark may return.
BadDict == [kind |-> "dict_of_text"]      \* a dict whose values sum() cannot add
Bets == {NoneBet, RedBet(10), NumberBet(20), DictBet(EmptyDict), OtherBet, BadDict}

\* sum(bet_info.values()) raises TypeError on values that are not numbers.
Numeric(bet) == bet.kind # "dict_of_text"

\* Mutant of OverBudget: the session is given up on the 10th exception.
OverBudgetEarly(n) == n >= ErrorBudget

\* Mutant of OverBudget: the session is given up one exception later.
OverBudgetLate(n) == n > ErrorBudget + 1

\* if errors > 10
OverBudget(n) == n > ErrorBudget

\* except Exception as e: inside the loop
OnException ==
    /\ errors' = errors + 1
    /\ IF OverBudget(errors + 1)
       THEN /\ results' = [results EXCEPT !.error = "Too many errors during simulation"]
            /\ pc' = "finish"
            /\ spin' = spin
       ELSE /\ results' = results
            /\ pc' = "loop"
            /\ spin' = spin + 1

\* Loading the module, finding the class, instantiating it, seeding.  load is
\* what the module of the file makes of these steps: see LoadFrom.
LoadStrategy(load) ==
    /\ pc = "start"
    /\ benchmark_class' = load.strategy_class
    /\ UNCHANGED first_none
    /\ LET loaded == load.outcome
       IN IF loaded = "ok"
          THEN /\ game_state' = [MockGameState EXCEPT !.current_balance = load.bankroll]
               /\ totals' = NewTotals
               /\ errors' = 0
               /\ rng' = seed
               /\ pc' = "loop"
               /\ results' = results
          ELSE /\ results' = [results EXCEPT !.error =
                                 CASE loaded = "no_spec" -> "Could not load module"
                                   [] loaded = "no_class" -> "No strategy class found"
                                   [] OTHER -> "exception"]
               /\ pc' = "done"
               /\ UNCHANGED <<game_state, totals, errors, rng>>
    /\ UNCHANGED <<spin, bet_info, generated_in>>

\* for spin in range(num_spins): and the timeout check
RoundStart(num_spins) ==
    /\ pc = "loop"
    /\ IF spin >= num_spins
       THEN /\ pc' = "finish"
            /\ results' = results
       ELSE \E timed_out \in BOOLEAN :
              IF timed_out
              THEN /\ results' = [results EXCEPT !.error = "Timeout"]
                   /\ pc' = "finish"
              ELSE /\ results' = results
                   /\ pc' = "call"
    /\ UNCHANGED <<spin, game_state, bet_info, totals, errors, generated_in, rng,
                   benchmark_class, first_none>>

\* Mutant of CallStrategy: the outcome of the round is drawn and appended before
\* the strategy is asked.
CallStrategyPrefetched ==
    /\ pc = "call"
    /\ \E bet \in Bets :
          /\ bet_info' = bet
          /\ pc' = "process"
          /\ game_state' = add_result(game_state, randint(rng))
          /\ rng' = rng + 1
          /\ generated_in' = spin
    /\ UNCHANGED <<spin, totals, errors, results, benchmark_class, first_none>>

\* bet_info = strategy.place_bet(game_state): the call returns a decision, raises,
\* or never returns.
CallStrategy ==
    /\ pc = "call"
    /\ \/ \E bet \in Bets :
             /\ bet_info' = bet
             /\ pc' = "process"
             /\ UNCHANGED <<spin, errors, results>>
       \/ /\ OnException
          /\ bet_info' = NoBetInfo
       \/ /\ pc' = "stuck"
          /\ UNCHANGED <<spin, errors, results, bet_info>>
    /\ UNCHANGED <<game_state, totals, generated_in, rng, benchmark_class, first_none>>

\* strategy = strategy_class() where the class found is ExampleStrategy.
LoadExampleStrategy(load) ==
    /\ LoadStrategy(load)
    /\ IF load.outcome = "ok" THEN Construct(1, NoKwargs) ELSE UNCHANGED strategyVars

\* bet_info = strategy.place_bet(game_state) on the ExampleStrategy instance.
CallExampleStrategy ==
    /\ pc = "call"
    /\ LET r == place_bet(strategies[1], game_state)
       IN  /\ strategies' = [strategies EXCEPT ![1] = r.self]
           /\ bet_info' = r.bet
           /\ first_none' = IF r.bet = NoneBet /\ ~first_none.seen
                            THEN [seen |-> TRUE, spin |-> spin, game_state |-> game_state]
                            ELSE first_none
    /\ pc' = "process"
    /\ UNCHANGED <<spin, errors, results, game_state, totals, generated_in, rng,
                   benchmark_class>>
    /\ UNCHANGED <<given, info, queue, last_call, loss_run>>

\* The rest of the round: the bet is added up, the outcome drawn and appended.
ProcessBet ==
    /\ pc = "process"
    /\ bet_info' = NoBetInfo
    /\ UNCHANGED <<benchmark_class, first_none>>
    /\ IF bet_info = NoneBet
       THEN /\ pc' = "loop"
            /\ spin' = spin + 1
            /\ UNCHANGED <<game_state, totals, errors, results, generated_in, rng>>
       ELSE IF ~Numeric(bet_info)
       THEN /\ OnException
            /\ UNCHANGED <<game_state, totals, generated_in, rng>>
       ELSE LET bet_amount == bet_amount_of(bet_info)
                result == randint(rng)
            IN  /\ totals' = IF bet_amount > 0
                             THEN [total_bet_amount |-> totals.total_bet_amount + bet_amount,
                                   max_bet |-> Max(totals.max_bet, bet_amount),
                                   min_bet |-> Min(totals.min_bet, bet_amount),
                                   bet_count |-> totals.bet_count + 1]
                             ELSE totals
                /\ rng' = rng + 1
                /\ game_state' = add_result(game_state, result)
                /\ generated_in' = spin
                /\ pc' = "loop"
                /\ spin' = spin + 1
                /\ UNCHANGED <<errors, results>>

\* The metrics, and results.update({"success": True, ...})
Finish ==
    /\ pc = "finish"
    /\ results' = [results EXCEPT
          !.success = TRUE,
          !.metrics =
             [spins_completed   |-> game_state.spin_count,
              total_bets_placed |-> totals.bet_count,
              total_bet_amount  |-> totals.total_bet_amount,
              max_bet           |-> totals.max_bet,
              min_bet           |-> IF totals.bet_count > 0 /\ totals.min_bet # Infinity
                                    THEN totals.min_bet ELSE 0,
              bet_variance      |-> IF totals.bet_count > 0 /\ totals.min_bet # Infinity
                                    THEN totals.max_bet - totals.min_bet ELSE 0,
              errors_encountered |-> errors]]
    /\ pc' = "done"
    /\ UNCHANGED <<spin, game_state, bet_info, totals, errors, generated_in, rng,
                   benchmark_class, first_none>>

BenchInit ==
    /\ pc = "start"
    /\ spin = 0
    /\ game_state = MockGameState
    /\ bet_info = NoBetInfo
    /\ totals = NewTotals
    /\ errors = 0
    /\ results = NewResults("a.py")
    /\ generated_in = -1
    /\ benchmark_class = NoClass
    /\ first_none = NoNone

(***************************************************************************)
(* The sessions of two worker threads of the ThreadPoolExecutor.  Each runs*)
(* run_strategy_benchmark; random.seed and random.randint act on the one   *)
(* generator of the process.                                               *)
(***************************************************************************)
Workers == {1, 2}

NewWorker == [pc |-> "start", spin |-> 0, history |-> <<>>]

NextRound(w) == [w EXCEPT !.spin = @ + 1,
                          !.pc = IF w.spin + 1 >= PoolSpins THEN "done" ELSE "call"]

\* import random; random.seed(42)
WorkerSeed(w) ==
    /\ workers[w].pc = "start"
    /\ rng' = seed
    /\ workers' = [workers EXCEPT ![w].pc = "call"]

\* strategy.place_bet(game_state): a decision to settle, or None or an exception
WorkerCall(w) ==
    /\ workers[w].pc = "call"
    /\ \E settles \in BOOLEAN :
          workers' = [workers EXCEPT ![w] =
                        IF settles THEN [@ EXCEPT !.pc = "spin"] ELSE NextRound(@)]
    /\ UNCHANGED rng

\* result = random.randint(0, 36); game_state.add_result(result)
WorkerSpin(w) ==
    /\ workers[w].pc = "spin"
    /\ rng' = rng + 1
    /\ workers' = [workers EXCEPT ![w] =
                     NextRound([@ EXCEPT !.history = Append(@, randint(rng))])]

PoolInit ==
    /\ rng = Unseeded
    /\ workers = [w \in Workers |-> NewWorker]

(***************************************************************************)
(* benchmark_all_strategies: the loop over the futures and the verdict     *)
(***************************************************************************)
NoVerdict == [returned |-> FALSE]
Returns(b) == [returned |-> TRUE, value |-> b]

successful_results == SelectSeq(all_results, LAMBDA r : r.success)

\* Mutant of CollectResult: the file of a failed result is not listed.
CollectResultUnlisted(name, result) ==
    /\ all_results' = Append(all_results, result)
    /\ failed_strategies' = failed_strategies

\* future.result(timeout=timeout + 5) returned a result
CollectResult(name, result) ==
    /\ all_results' = Append(all_results, result)
    /\ failed_strategies' = IF result.success THEN failed_strategies
                            ELSE Append(failed_strategies, result.file)

\* except TimeoutError: / except Exception as e:
CollectFailure(name) ==
    /\ all_results' = all_results
    /\ failed_strategies' = Append(failed_strategies, name)

\* Mutant of DetermineSuccess: a success rate of exactly 80% is rejected.
DetermineSuccessStrict(n_successful, n_strategy_files, n_failed) ==
    IF 5 * n_successful <= 4 * n_strategy_files
    THEN FALSE
    ELSE IF n_failed > 0 THEN n_failed <= 2 ELSE TRUE

\* "Determine success": success_rate = successful / files is below 0.8 exactly
\* when 5 * successful < 4 * files.
DetermineSuccess(n_successful, n_strategy_files, n_failed) ==
    IF 5 * n_successful < 4 * n_strategy_files
    THEN FALSE
    ELSE IF n_failed > 0 THEN n_failed <= 2 ELSE TRUE

\* The future of the next file ends in one of the four ways.
CollectAny ==
    /\ verdict = NoVerdict
    /\ collected < n_files
    /\ LET name == collected + 1
       IN  \/ CollectResult(name, [file |-> name, success |-> TRUE])
           \/ /\ Len(failed_strategies) < MaxFailures
              /\ \/ CollectResult(name, [file |-> name, success |-> FALSE])
                 \/ \E raised \in {"TimeoutError", "Exception"} : CollectFailure(name)
    /\ collected' = collected + 1
    /\ UNCHANGED <<n_files, verdict, executor, results_file>>

\* The end of the "with ThreadPoolExecutor(...) as executor" block, after the loop
\* over the futures: __exit__ calls shutdown(wait=True), which returns when every
\* worker thread has finished its session.
ExecutorShutdown(all_finished) ==
    /\ n_files > 0
    /\ collected = n_files
    /\ executor = "open"
    /\ all_finished
    /\ executor' = "shutdown"
    /\ UNCHANGED <<n_files, all_results, failed_strategies, collected, verdict, results_file>>

NoFile == [summary |-> None]

\* "Save detailed results": the dict that json.dump writes.
DetailedResults ==
    [summary |-> [total_strategies |-> n_files,
                  successful |-> Len(successful_results),
                  failed |-> Len(failed_strategies),
                  failed_strategies |-> failed_strategies],
     results |-> all_results]

\* if not strategy_files: return True, else the report and the verdict after the
\* loop
Decide ==
    /\ verdict = NoVerdict
    /\ collected = n_files
    /\ n_files > 0 => executor = "shutdown"
    /\ results_file' = IF n_files = 0 THEN results_file ELSE DetailedResults
    /\ verdict' = IF n_files = 0 THEN Returns(TRUE)
                  ELSE Returns(DetermineSuccess(Len(successful_results), n_files,
                                                Len(failed_strategies)))
    /\ UNCHANGED <<n_files, all_results, failed_strategies, collected, executor>>

\* The future of the benchmarked session: its result once the session is done,
\* a TimeoutError when the deadline passes first.
CollectSession ==
    /\ verdict = NoVerdict
    /\ collected < n_files
    /\ \/ /\ pc = "done"
          /\ CollectResult(results.file, [file |-> results.file,
                                          success |-> results.success])
       \/ /\ pc # "done"
          /\ CollectFailure(results.file)
    /\ collected' = collected + 1
    /\ UNCHANGED <<n_files, verdict, executor, results_file>>

FileCounts == {0, 1, 5, 10, MaxFiles}

AggInit ==
    /\ n_files \in FileCounts
    /\ all_results = <<>>
    /\ failed_strategies = <<>>
    /\ collected = 0
    /\ verdict = NoVerdict
    /\ executor = "open"
    /\ results_file = NoFile

AggIdle ==
    /\ n_files = 0
    /\ all_results = <<>>
    /\ failed_strategies = <<>>
    /\ collected = 0
    /\ verdict = NoVerdict
    /\ executor = "open"
    /\ results_file = NoFile

(***************************************************************************)
(* Values a strategy class hands to the validator.  A text is the sequence *)
(* of its characters, so strip() and the comparison with "" are computed.  *)
(***************************************************************************)
StrValue(s)   == [type |-> "str", chars |-> s]
BytesValue(s) == [type |-> "bytes", chars |-> s]
IntValue(n)   == [type |-> "int", value |-> n]
NoneValue     == [type |-> "NoneType"]
ListValue     == [type |-> "list"]
DictValue(d)  == [type |-> "dict", items |-> d]

Whitespace == {" ", "\t", "\n"}

RECURSIVE lstrip(_)
lstrip(s) == IF s # <<>> /\ Head(s) \in Whitespace THEN lstrip(Tail(s)) ELSE s

RECURSIVE rstrip(_)
rstrip(s) ==
    IF s # <<>> /\ s[Len(s)] \in Whitespace THEN rstrip(SubSeq(s, 1, Len(s) - 1)) ELSE s

strip(s) == rstrip(lstrip(s))

\* bool(v)
Truthy(v) ==
    CASE v.type \in {"str", "bytes"} -> v.chars # <<>>
      [] v.type = "int"              -> v.value # 0
      [] OTHER                       -> FALSE

\* v.strip() exists on str and bytes; on any other value it is an AttributeError.
HasStrip(v) == v.type \in {"str", "bytes"}

\* v.strip() == "": a bytes value is never equal to a str.
StripIsEmptyStr(v) == v.type = "str" /\ strip(v.chars) = <<>>

(***************************************************************************)
(* validate_strategy_file: the checks on the class                         *)
(***************************************************************************)
required_fields    == <<"contributor_name", "strategy_description">>
recommended_fields == <<"bankroll", "base_bet", "target_profit">>
MinDocstring == 20
NoDoc == -1         \* __doc__ is None

NoValidation == [file |-> None]

NewValidation(name) ==
    [file |-> name, valid |-> TRUE, errors |-> <<>>, warnings |-> <<>>,
     metadata |-> DictValue([k \in {} |-> NoneValue])]

Invalid(res, error) == [res EXCEPT !.valid = FALSE, !.errors = Append(@, error)]

Warn(res, warning) == [res EXCEPT !.warnings = Append(@, warning)]

\* The body of "for field in required_fields": the result so far, and whether
\* defaults[field].strip() raised.
RECURSIVE CheckRequired(_, _, _)
CheckRequired(res, defaults, fields) ==
    IF fields = <<>> THEN [res |-> res, raised |-> FALSE]
    ELSE LET field == Head(fields)
         IN  IF field \notin DOMAIN defaults.items
             THEN CheckRequired(Invalid(res, <<"Missing required metadata field", field>>),
                                defaults, Tail(fields))
             ELSE IF ~Truthy(defaults.items[field])
             THEN CheckRequired(Invalid(res, <<"Empty required metadata field", field>>),
                                defaults, Tail(fields))
             ELSE IF ~HasStrip(defaults.items[field])
             THEN [res |-> res, raised |-> TRUE]
             ELSE IF StripIsEmptyStr(defaults.items[field])
             THEN CheckRequired(Invalid(res, <<"Empty required metadata field", field>>),
                                defaults, Tail(fields))
             ELSE CheckRequired(res, defaults, Tail(fields))

RECURSIVE CheckRecommended(_, _, _)
CheckRecommended(res, defaults, fields) ==
    IF fields = <<>> THEN res
    ELSE CheckRecommended(
            IF Head(fields) \notin DOMAIN defaults.items
            THEN Warn(res, <<"Missing recommended field", Head(fields)>>)
            ELSE res,
            defaults, Tail(fields))

\* Mutant of ValidateDefaults: the isinstance test is missing, and a value that is
\* not a dict is searched for the fields like one without any.
ValidateDefaultsUntyped(res, cls) ==
    IF cls.get_defaults.kind = "absent" THEN res
    ELSE IF cls.get_defaults.kind = "raises"
    THEN Invalid(res, <<"Error calling get_defaults()">>)
    ELSE LET returned == cls.get_defaults.value
             defaults == IF returned.type = "dict" THEN returned
                         ELSE DictValue([k \in {} |-> NoneValue])
             r == CheckRequired(res, defaults, required_fields)
         IN  IF r.raised
             THEN Invalid(r.res, <<"Error calling get_defaults()">>)
             ELSE [CheckRecommended(r.res, defaults, recommended_fields)
                      EXCEPT !.metadata = defaults]

\* "Validate get_defaults method"
ValidateDefaults(res, cls) ==
    IF cls.get_defaults.kind = "absent" THEN res
    ELSE IF cls.get_defaults.kind = "raises"
    THEN Invalid(res, <<"Error calling get_defaults()">>)
    ELSE LET defaults == cls.get_defaults.value
         IN  IF defaults.type # "dict"
             THEN Invalid(res, <<"get_defaults() must return a dictionary">>)
             ELSE LET r == CheckRequired(res, defaults, required_fields)
                  IN  IF r.raised
                      THEN Invalid(r.res, <<"Error calling get_defaults()">>)
                      ELSE [CheckRecommended(r.res, defaults, recommended_fields)
                               EXCEPT !.metadata = defaults]

(***************************************************************************)
(* Classes and modules as the validator sees them.  A class name is the    *)
(* sequence of its capitalised words, so name.endswith("Strategy") is a    *)
(* test of the last word.  doc is len(__doc__.strip()), or NoDoc.          *)
(***************************************************************************)
NoMethod      == [kind |-> "absent"]
Raises        == [kind |-> "raises"]
ReturnsValue(v) == [kind |-> "returns", value |-> v]
Function(ps)  == [kind |-> "function", params |-> ps]
Attribute     == [kind |-> "attribute"]     \* place_bet = 5: not a callable

EndsWith(name, word) == name # <<>> /\ name[Len(name)] = word

\* issubclass(cls, base): base is cls or is in cls.__mro__ after it.  cls.mro is
\* the names of the classes of __mro__ after cls itself.
issubclass(cls, base) ==
    cls.name = base.name \/ \E i \in 1..Len(cls.mro) : cls.mro[i] = base.name

\* name.endswith("Strategy") and hasattr(obj, "place_bet")
IsCandidate(cls) == EndsWith(cls.name, "Strategy") /\ cls.place_bet # NoMethod

\* "Check required methods"
RequiredMethods(res, cls) ==
    LET r1 == IF cls.place_bet = NoMethod
              THEN Invalid(res, <<"Missing required method", "place_bet">>) ELSE res
    IN  IF cls.get_defaults = NoMethod
        THEN Invalid(r1, <<"Missing required method", "get_defaults">>) ELSE r1

\* Mutant of CheckDocstring: a missing or short docstring is an error.
CheckDocstringAsError(res, cls) ==
    IF cls.doc = NoDoc \/ cls.doc < MinDocstring
    THEN Invalid(res, <<"Strategy class should have a comprehensive docstring">>)
    ELSE res

\* "Check docstring"
CheckDocstring(res, cls) ==
    IF cls.doc = NoDoc \/ cls.doc < MinDocstring
    THEN Warn(res, <<"Strategy class should have a comprehensive docstring">>)
    ELSE res

\* "Check place_bet method signature".  inspect.signature raises TypeError on an
\* attribute that is not callable, which the outer except turns into an error.
CheckSignature(res, cls) ==
    IF cls.place_bet = NoMethod THEN res
    ELSE IF cls.place_bet = Attribute
    THEN Invalid(res, <<"Error loading strategy", "TypeError">>)
    ELSE LET params == cls.place_bet.params
         IN  IF Len(params) < 2 \/ params[2] # "game_state"
             THEN Warn(res, <<"place_bet method should have 'game_state' as second parameter">>)
             ELSE res

RECURSIVE Names(_)
Names(classes) ==
    IF classes = <<>> THEN <<>> ELSE <<Head(classes).name>> \o Names(Tail(classes))

\* Mutant of ValidateClasses: every discovered class is checked, not the first.
RECURSIVE ValidateEveryClass(_, _)
ValidateEveryClass(res, strategy_classes) ==
    IF strategy_classes = <<>> THEN res
    ELSE ValidateEveryClass(
            CheckSignature(CheckDocstring(ValidateDefaults(
                RequiredMethods(res, Head(strategy_classes)),
                Head(strategy_classes)), Head(strategy_classes)), Head(strategy_classes)),
            Tail(strategy_classes))

\* From "if len(strategy_classes) > 1" to the end: the warning, then the checks on
\* strategy_classes[0].
ValidateClasses(res, strategy_classes) ==
    LET r1 == IF Len(strategy_classes) > 1
              THEN Warn(res, <<"Multiple strategy classes found", Names(strategy_classes)>>)
              ELSE res
        strategy_class == strategy_classes[1]
    IN  CheckSignature(CheckDocstring(ValidateDefaults(
            RequiredMethods(r1, strategy_class), strategy_class), strategy_class),
            strategy_class)

\* The class names of the model in the order of Python's str comparison, which is
\* the order of inspect.getmembers.
SortedNames ==
    <<(<<"Abstract", "Strategy">>), (<<"Alpha", "Strategy">>), (<<"Any">>),
      (<<"Community", "Strategy">>), (<<"Example", "Strategy">>),
      (<<"Good", "Strategy">>), (<<"Zeta", "Strategy">>)>>

Rank(name) == CHOOSE i \in 1..Len(SortedNames) : SortedNames[i] = name

RECURSIVE InsertByName(_, _)
InsertByName(cls, sorted) ==
    IF sorted = <<>> THEN <<cls>>
    ELSE IF Rank(cls.name) < Rank(Head(sorted).name) THEN <<cls>> \o sorted
    ELSE <<Head(sorted)>> \o InsertByName(cls, Tail(sorted))

\* inspect.getmembers(module, inspect.isclass): the classes of the namespace,
\* sorted by name.
RECURSIVE getmembers(_)
getmembers(namespace) ==
    IF namespace = <<>> THEN <<>>
    ELSE InsertByName(Head(namespace), getmembers(Tail(namespace)))

\* "Find strategy classes" over inspect.getmembers(module, inspect.isclass), and
\* the checks that follow.
ValidateModule(res, module) ==
    LET strategy_classes == SelectSeq(getmembers(module.namespace), IsCandidate)
    IN  IF strategy_classes = <<>>
        THEN Invalid(res, <<"No strategy class found">>)
        ELSE ValidateClasses(res, strategy_classes)

(***************************************************************************)
(* Loading.  importlib.import_module("yss_strategies.contributed.<name>")  *)
(* runs the package's __init__, which imports every module of the directory*)
(* that is not cached, in name order: an ImportError is caught there, any  *)
(* other exception leaves the package import.                              *)
(***************************************************************************)
Absent == [status |-> "absent"]
ModuleNames == <<"a", "b">>

RECURSIVE ImportContributed(_, _, _)
ImportContributed(dir, cache, names) ==
    IF names = <<>> THEN [raised |-> FALSE, cache |-> cache]
    ELSE LET modname == Head(names)
         IN  IF dir[modname] = Absent \/ modname \in cache
             THEN ImportContributed(dir, cache, Tail(names))
             ELSE IF dir[modname].status = "ok"
             THEN ImportContributed(dir, cache \cup {modname}, Tail(names))
             ELSE IF dir[modname].status = "ImportError"
             THEN ImportContributed(dir, cache, Tail(names))
             ELSE [raised |-> TRUE, cache |-> cache]

\* The error of a file whose import raised.
ImportFailed == <<"Error loading strategy", "raised by the import">>

\* validate_strategy_file: the result and sys.modules afterwards.
validate_strategy_file(dir, cache, name) ==
    LET p == ImportContributed(dir, cache \ {name}, ModuleNames)
    IN  IF p.raised
        THEN [result |-> Invalid(NewValidation(name), ImportFailed),
              cache |-> p.cache]
        ELSE IF name \notin p.cache
        THEN \* ImportError of the module itself: the fallback executes it again
             [result |-> Invalid(NewValidation(name), ImportFailed),
              cache |-> p.cache \cup {name}]
        ELSE [result |-> ValidateModule(NewValidation(name), dir[name]),
              cache |-> p.cache]

\* One iteration of the loop of validate_all_strategies.
ValidateStrategyFile(name) ==
    /\ directory[name] # Absent
    /\ validation[name] = NoValidation
    /\ LET r == validate_strategy_file(directory, sys_modules, name)
       IN  /\ validation' = [validation EXCEPT ![name] = r.result]
           /\ sys_modules' = r.cache
    /\ UNCHANGED directory

(***************************************************************************)
(* The directories validated: a.py holds any module, b.py is absent, good  *)
(* or broken.  module.namespace is the classes of vars(module), in the     *)
(* order in which the module binds them; it holds the classes the module   *)
(* imports too.  The modules here bind their classes in name order.        *)
(***************************************************************************)
Missing == [type |-> "missing"]      \* the key is not in the dict

FieldValues ==
    {StrValue(<<"Y", "S", "S">>), StrValue(<<" ", "\t">>), StrValue(<<>>),
     BytesValue(<<" ">>), IntValue(5), NoneValue}

MetaDict(cn, sd, recommended) ==
    DictValue([k \in (IF cn = Missing THEN {} ELSE {"contributor_name"})
                  \cup (IF sd = Missing THEN {} ELSE {"strategy_description"})
                  \cup (IF recommended THEN {"bankroll", "base_bet", "target_profit"}
                        ELSE {"base_bet"})
            |-> CASE k = "contributor_name"     -> cn
                  [] k = "strategy_description" -> sd
                  [] k = "bankroll"             -> IntValue(1000)
                  [] OTHER                      -> IntValue(10)])

DefaultsDicts ==
    {MetaDict(cn, sd, rec) : cn \in FieldValues \cup {Missing},
                             sd \in FieldValues \cup {Missing}, rec \in BOOLEAN}

GoodDefaults ==
    MetaDict(StrValue(<<"Y", "S", "S">>), StrValue(<<"o", "n", " ", "r", "e", "d">>), TRUE)

Signatures ==
    {Function(<<"self", "game_state">>), Function(<<"self", "state">>), Function(<<"self">>),
     Function(<<"self", "game_state", "extra">>), Attribute}
Docs == {NoDoc, 5, 40}

\* __mro__ after the class: of class X(CommunityStrategy), of CommunityStrategy(ABC)
\* and of class X.
InheritsContract == <<(<<"Community", "Strategy">>), (<<"ABC">>), (<<"object">>)>>
AbstractBase     == <<(<<"ABC">>), (<<"object">>)>>
Standalone       == <<(<<"object">>)>>

ClassesNamed(name) ==
    {[name |-> name, place_bet |-> pb, get_defaults |-> gd, doc |-> d, mro |-> m] :
        pb \in Signatures, d \in Docs, m \in {InheritsContract, Standalone},
        gd \in {NoMethod, Raises, ReturnsValue(ListValue), ReturnsValue(NoneValue)}
                 \cup {ReturnsValue(dd) : dd \in DefaultsDicts}}

\* yss_strategies.base.CommunityStrategy, as a module that imports it holds it:
\* place_bet(self, game_state) and get_defaults(cls) are abstract and return None.
CommunityStrategy ==
    [name |-> <<"Community", "Strategy">>, place_bet |-> Function(<<"self", "game_state">>),
     get_defaults |-> ReturnsValue(NoneValue), doc |-> 40, mro |-> AbstractBase]

\* Classes that are no candidates: typing.Any, and a ...Strategy without place_bet.
Decoys ==
    {[name |-> <<"Any">>, place_bet |-> NoMethod, get_defaults |-> NoMethod, doc |-> 40,
      mro |-> Standalone],
     [name |-> <<"Abstract", "Strategy">>, place_bet |-> NoMethod,
      get_defaults |-> ReturnsValue(ListValue), doc |-> NoDoc, mro |-> Standalone]}

GoodClass(name) ==
    [name |-> name, place_bet |-> Function(<<"self", "game_state">>),
     get_defaults |-> ReturnsValue(GoodDefaults), doc |-> 40, mro |-> InheritsContract]

SecondClasses ==
    {GoodClass(<<"Zeta", "Strategy">>),
     [GoodClass(<<"Zeta", "Strategy">>) EXCEPT !.get_defaults = ReturnsValue(ListValue)],
     [GoodClass(<<"Zeta", "Strategy">>) EXCEPT !.get_defaults = NoMethod, !.doc = NoDoc]}

Opt(cls) == IF cls = NoClass THEN <<>> ELSE <<cls>>

Module(classes) == [status |-> "ok", namespace |-> classes]

Modules ==
    {Module(Opt(d) \o Opt(c) \o Opt(e) \o Opt(z)) :
        d \in Decoys \cup {NoClass}, c \in {CommunityStrategy, NoClass},
        e \in ClassesNamed(<<"Example", "Strategy">>) \cup {NoClass},
        z \in SecondClasses \cup {NoClass}}
      \cup {[status |-> "ImportError"], [status |-> "raises"]}

(***************************************************************************)
(* run_strategy_benchmark up to the loop, on the module the file holds.    *)
(* spec_from_file_location executes the file outside its package, so the   *)
(* modules here reach the classes they import by absolute imports.         *)
(***************************************************************************)
\* "Find strategy class": the first candidate of vars(module).items(), which is
\* in the order in which the module binds its names.
FindStrategyClass(module) ==
    LET found == SelectSeq(module.namespace, IsCandidate)
    IN  IF found = <<>> THEN NoClass ELSE Head(found)

\* strategy_class() raises TypeError on a class with abstract methods.
Instantiable(cls) == cls.name # CommunityStrategy.name

DefaultBankroll == 1000

\* defaults.get("bankroll", 1000), where defaults is {} without get_defaults
Bankroll(cls) ==
    IF cls.get_defaults.kind = "returns"
          /\ "bankroll" \in DOMAIN cls.get_defaults.value.items
    THEN cls.get_defaults.value.items["bankroll"].value
    ELSE DefaultBankroll

Load(outcome, cls, bankroll) ==
    [outcome |-> outcome, strategy_class |-> cls, bankroll |-> bankroll]

\* has_spec: spec_from_file_location returned a spec with a loader.
LoadFrom(module, has_spec) ==
    IF ~has_spec THEN Load("no_spec", NoClass, DefaultBankroll)
    ELSE IF module.status # "ok" THEN Load("raises", NoClass, DefaultBankroll)
    ELSE LET cls == FindStrategyClass(module)
         IN  IF cls = NoClass THEN Load("no_class", NoClass, DefaultBankroll)
             ELSE IF \/ ~Instantiable(cls)
                     \/ cls.get_defaults.kind = "raises"
                     \/ /\ cls.get_defaults.kind = "returns"
                        /\ cls.get_defaults.value.type # "dict"
             THEN Load("raises", cls, DefaultBankroll)
             ELSE Load("ok", cls, Bankroll(cls))

\* The modules benchmarked: a class of its own, the same after the imported base
\* class, no candidate, and a module that raises when executed.
BenchModules ==
    {Module(<<GoodClass(<<"Example", "Strategy">>)>>),
     Module(<<CommunityStrategy, GoodClass(<<"Example", "Strategy">>)>>),
     Module(<<[name |-> <<"Any">>, place_bet |-> NoMethod, get_defaults |-> NoMethod,
               doc |-> 40, mro |-> Standalone]>>),
     [status |-> "raises"]}

Siblings ==
    {Absent, Module(<<GoodClass(<<"Good", "Strategy">>)>>),
     [status |-> "ImportError"], [status |-> "raises"]}

ValidateInit ==
    /\ directory \in {[n \in {"a", "b"} |-> IF n = "a" THEN m ELSE s] :
                         m \in Modules, s \in Siblings}
    /\ sys_modules = {}
    /\ validation = [n \in {"a", "b"} |-> NoValidation]

ValidateIdle ==
    /\ directory = [n \in {"a", "b"} |-> Absent]
    /\ sys_modules = {}
    /\ validation = [n \in {"a", "b"} |-> NoValidation]

(***************************************************************************)
(* Specifications                                                          *)
(***************************************************************************)
\* The static check and the two loading stages over one file.
PipelineNext ==
    \/ CheckAllRequirements
          /\ UNCHANGED <<strategyVars, benchVars, poolVars, aggVars, validateVars>>
    \/ ValidateAllStrategies
          /\ UNCHANGED <<strategyVars, benchVars, poolVars, aggVars, validateVars>>
    \/ BenchmarkAllStrategies
          /\ UNCHANGED <<strategyVars, benchVars, poolVars, aggVars, validateVars>>

Init == AnalyzeInit /\ StrategyInit /\ BenchInit /\ PoolInit /\ AggIdle /\ ValidateIdle

Spec == Init /\ [][PipelineNext]_vars

\* ExampleStrategy under a caller.
StrategyNext ==
    \/ \E i \in 1..2, kwargs \in Overrides :
          Construct(i, kwargs)
                /\ UNCHANGED <<analyzeVars, benchVars, poolVars, aggVars, validateVars>>
    \/ \E gs \in GameStates :
          PlaceBetFirst(gs) /\ UNCHANGED <<analyzeVars, benchVars, poolVars, aggVars, validateVars>>
    \/ PlaceBetSecond /\ UNCHANGED <<analyzeVars, benchVars, poolVars, aggVars, validateVars>>
    \/ Reset /\ UNCHANGED <<analyzeVars, benchVars, poolVars, aggVars, validateVars>>
    \/ ResetSecond /\ UNCHANGED <<analyzeVars, benchVars, poolVars, aggVars, validateVars>>
    \/ GetInfo /\ UNCHANGED <<analyzeVars, benchVars, poolVars, aggVars, validateVars>>
    \/ \E key \in InfoKeys :
          MutateInfo(key, 99)
             /\ UNCHANGED <<analyzeVars, benchVars, poolVars, aggVars, validateVars>>

InitStrategy == AnalyzeIdle /\ StrategyInit /\ BenchInit /\ PoolInit /\ AggIdle /\ ValidateIdle

SpecStrategy == InitStrategy /\ [][StrategyNext]_vars

\* One benchmark session and the collection of its future.
BenchNext ==
    \/ \E has_spec \in BOOLEAN :
          LoadStrategy(LoadFrom(directory["a"], has_spec))
             /\ UNCHANGED <<analyzeVars, strategyVars, workers, aggVars, validateVars>>
    \/ RoundStart(NumSpins)
          /\ UNCHANGED <<analyzeVars, strategyVars, workers, aggVars, validateVars>>
    \/ CallStrategy /\ UNCHANGED <<analyzeVars, strategyVars, workers, aggVars, validateVars>>
    \/ ProcessBet /\ UNCHANGED <<analyzeVars, strategyVars, workers, aggVars, validateVars>>
    \/ Finish /\ UNCHANGED <<analyzeVars, strategyVars, workers, aggVars, validateVars>>
    \/ CollectSession /\ UNCHANGED <<analyzeVars, strategyVars, benchVars, poolVars, validateVars>>
    \/ ExecutorShutdown(pc = "done")
          /\ UNCHANGED <<analyzeVars, strategyVars, benchVars, poolVars, validateVars>>
    \/ Decide /\ UNCHANGED <<analyzeVars, strategyVars, benchVars, poolVars, validateVars>>

InitBench ==
    /\ AnalyzeIdle /\ StrategyInit /\ BenchInit /\ PoolInit
    /\ n_files = 1 /\ all_results = <<>> /\ failed_strategies = <<>>
    /\ collected = 0 /\ verdict = NoVerdict /\ executor = "open" /\ results_file = NoFile
    /\ directory \in {[n \in {"a", "b"} |-> IF n = "a" THEN m ELSE Absent] :
                         m \in BenchModules}
    /\ sys_modules = {}
    /\ validation = [n \in {"a", "b"} |-> NoValidation]

SpecBench == InitBench /\ [][BenchNext]_vars

\* Two sessions running in the worker pool.
PoolNext ==
    \E w \in Workers :
       \/ WorkerSeed(w) /\ UNCHANGED <<analyzeVars, strategyVars, benchVars, aggVars, validateVars>>
       \/ WorkerCall(w) /\ UNCHANGED <<analyzeVars, strategyVars, benchVars, aggVars, validateVars>>
       \/ WorkerSpin(w) /\ UNCHANGED <<analyzeVars, strategyVars, benchVars, aggVars, validateVars>>

InitPool == AnalyzeIdle /\ StrategyInit /\ BenchInit /\ PoolInit /\ AggIdle /\ ValidateIdle

SpecPool == InitPool /\ [][PoolNext]_vars

\* The collection loop over any outcomes of the futures.
AggNext ==
    \/ CollectAny /\ UNCHANGED <<analyzeVars, strategyVars, benchVars, poolVars, validateVars>>
    \/ ExecutorShutdown(TRUE)
          /\ UNCHANGED <<analyzeVars, strategyVars, benchVars, poolVars, validateVars>>
    \/ Decide /\ UNCHANGED <<analyzeVars, strategyVars, benchVars, poolVars, validateVars>>

InitAgg == AnalyzeIdle /\ StrategyInit /\ BenchInit /\ PoolInit /\ AggInit /\ ValidateIdle

SpecAgg == InitAgg /\ [][AggNext]_vars

\* validate_all_strategies over the directory, file after file in any order.
ValidateNext ==
    \E name \in {"a", "b"} :
       ValidateStrategyFile(name)
          /\ UNCHANGED <<analyzeVars, strategyVars, benchVars, poolVars, aggVars>>

InitValidate ==
    AnalyzeIdle /\ StrategyInit /\ BenchInit /\ PoolInit /\ AggIdle /\ ValidateInit

SpecValidate == InitValidate /\ [][ValidateNext]_vars

\* check_strategy_requirements on one file and validate_strategy_file on one
\* module, over inputs that carry every kind of warning.
FindingFiles == {f \in Files : Len(f.nodes) <= 1 /\ Consistent(f.nodes, f.text)}

FindingClasses ==
    {c \in ClassesNamed(<<"Example", "Strategy">>) :
        /\ c.doc # 5
        /\ c.mro = InheritsContract
        /\ c.get_defaults \in
              {ReturnsValue(MetaDict(StrValue(<<"Y", "S", "S">>),
                                     StrValue(<<"Y", "S", "S">>), r)) : r \in BOOLEAN}
                \cup {ReturnsValue(MetaDict(StrValue(<<>>), Missing, FALSE)),
                      ReturnsValue(ListValue)}}

FindingModules ==
    {Module(<<e>> \o Opt(z)) :
        e \in FindingClasses,
        z \in {NoClass, [GoodClass(<<"Zeta", "Strategy">>) EXCEPT
                            !.get_defaults = ReturnsValue(ListValue)]}}

InitFindings ==
    /\ file \in FindingFiles
    /\ content \in Contents
    /\ report = NoReport
    /\ requirements = NoRequirements
    /\ executed = [s \in Stages |-> "not_run"]
    /\ directory \in {[n \in {"a", "b"} |-> IF n = "a" THEN m ELSE Absent] :
                         m \in FindingModules}
    /\ sys_modules = {}
    /\ validation = [n \in {"a", "b"} |-> NoValidation]
    /\ StrategyInit /\ BenchInit /\ PoolInit /\ AggIdle

FindingsNext ==
    \/ CheckAllRequirements
          /\ UNCHANGED <<strategyVars, benchVars, poolVars, aggVars, validateVars>>
    \/ \E name \in {"a", "b"} :
          ValidateStrategyFile(name)
             /\ UNCHANGED <<analyzeVars, strategyVars, benchVars, poolVars, aggVars>>

SpecFindings == InitFindings /\ [][FindingsNext]_vars

\* validate_strategy_file and the loading steps of run_strategy_benchmark on the
\* same file, for modules that bind up to three classes in any order.
CanonicalClasses ==
    {CommunityStrategy, GoodClass(<<"Alpha", "Strategy">>),
     GoodClass(<<"Example", "Strategy">>),
     [name |-> <<"Any">>, place_bet |-> NoMethod, get_defaults |-> NoMethod,
      doc |-> 40, mro |-> Standalone]}

CanonicalModules ==
    {Module(ns) : ns \in {q \in UNION {[1..n -> CanonicalClasses] : n \in 0..3} :
                              \A i, j \in 1..Len(q) : i # j => q[i] # q[j]}}

InitCanonical ==
    /\ AnalyzeIdle /\ StrategyInit /\ BenchInit /\ PoolInit /\ AggIdle
    /\ directory \in {[n \in {"a", "b"} |-> IF n = "a" THEN m ELSE Absent] :
                         m \in CanonicalModules}
    /\ sys_modules = {}
    /\ validation = [n \in {"a", "b"} |-> NoValidation]

CanonicalNext ==
    \/ \E name \in {"a", "b"} :
          ValidateStrategyFile(name)
             /\ UNCHANGED <<analyzeVars, strategyVars, benchVars, poolVars, aggVars>>
    \/ \E has_spec \in BOOLEAN :
          LoadStrategy(LoadFrom(directory["a"], has_spec))
             /\ UNCHANGED <<analyzeVars, strategyVars, workers, aggVars, validateVars>>

SpecCanonical == InitCanonical /\ [][CanonicalNext]_vars

\* run_strategy_benchmark on a file whose strategy class is ExampleStrategy.
ExampleNext ==
    \/ \E has_spec \in BOOLEAN :
          LoadExampleStrategy(LoadFrom(directory["a"], has_spec))
             /\ UNCHANGED <<analyzeVars, workers, aggVars, validateVars>>
    \/ RoundStart(ExampleSpins)
          /\ UNCHANGED <<analyzeVars, strategyVars, workers, aggVars, validateVars>>
    \/ CallExampleStrategy /\ UNCHANGED <<analyzeVars, workers, aggVars, validateVars>>
    \/ ProcessBet /\ UNCHANGED <<analyzeVars, strategyVars, workers, aggVars, validateVars>>
    \/ Finish /\ UNCHANGED <<analyzeVars, strategyVars, workers, aggVars, validateVars>>

SpecExample == InitBench /\ [][ExampleNext]_vars

(***************************************************************************)
(* Properties                                                              *)
(***************************************************************************)
HasDenyListedImport(f) ==
    \E i \in 1..Len(f.nodes) :
       LET node == f.nodes[i]
       IN  \/ /\ node.kind = "Import"
              /\ \E j \in 1..Len(node.names) : TopLevel(node.names[j]) \in forbidden
           \/ /\ node.kind = "ImportFrom"
              /\ node.module # NoModule
              /\ TopLevel(node.module) \in forbidden

HasDottedDenyListedFrom(f) ==
    \E i \in 1..Len(f.nodes) :
       /\ f.nodes[i].kind = "ImportFrom"
       /\ Len(f.nodes[i].module) > 1
       /\ TopLevel(f.nodes[i].module) \in forbidden

\* C1: the report of analyze_imports for a file that holds an import of a
\* deny-listed top-level module, as "import X", "import X.y", "from X import" or
\* "from X.y import", has valid = False, whatever else the file holds.
C1_DenyListedImportIsInvalid ==
    (report # NoReport /\ HasDenyListedImport(file)) => report.valid = FALSE

\* C1 witness: a report for a file whose only finding is "from os.path import ..."
\* next to other imports: no dangerous call, no text match.
C1_Witness ==
    /\ report # NoReport
    /\ HasDottedDenyListedFrom(file)
    /\ Len(file.nodes) > 1
    /\ DangerousCalls(file.nodes) = <<>>
    /\ file.text = {}
    /\ report.valid = FALSE

\* C2: a file whose static report has valid = False is never executed by the
\* validation stage or the benchmark stage.
C2_FailedScreeningNeverExecuted ==
    (report # NoReport /\ ~report.valid)
        => \A s \in Stages : executed[s] # "executed"

\* C3: every decision of a default-configured ExampleStrategy wagers at least 0
\* and at most the current_balance of the game state it was given.
C3_WagerWithinBalance ==
    \A i \in 1..2 :
       (last_call[i] # NoCall /\ strategies[i].config = get_defaults)
          => /\ bet_amount_of(last_call[i].bet) >= 0
             /\ bet_amount_of(last_call[i].bet) <= last_call[i].game_state.current_balance

Doubling == <<RedBet(10), RedBet(20), RedBet(40), RedBet(80), RedBet(160), RedBet(320)>>

\* C4 as stated: a first bet on an empty history and the bets after consecutive
\* non-red outcomes are 10, 20, 40, 80, 160, 320, then None.
C4_LossRunReaches320 ==
    loss_run.active =>
       \A k \in 1..Len(loss_run.bets) :
          loss_run.bets[k] = IF k <= 6 THEN Doubling[k] ELSE NoneBet

\* C4 amended: with the default configuration and a balance of at least 160, the
\* bets are 10, 20, 40, 80, 160 and None from the sixth call on.
C4_LossRunStopsAt160 ==
    loss_run.active =>
       \A k \in 1..Len(loss_run.bets) :
          loss_run.bets[k] = IF k <= 5 THEN Doubling[k] ELSE NoneBet

\* C4 witness: a recorded run of eight calls.
C4_Witness == loss_run.active /\ Len(loss_run.bets) >= 8

\* C5: two new instances of the same configuration given the same game states in
\* the same order return the same decisions.
C5_SameCallsSameDecisions ==
    (last_call[2] # NoCall /\ strategies[1].config = strategies[2].config)
        => last_call[2].bet = last_call[2].expected

\* C5 witness: the second instance, two losses into a progression, agrees with the
\* first on a bet of 40 or more.
C5_Witness ==
    /\ last_call[2] # NoCall
    /\ strategies[1].config = strategies[2].config
    /\ strategies[2].consecutive_losses >= 2
    /\ last_call[2].bet.kind = "dict"
    /\ bet_amount_of(last_call[2].bet) >= 40
    /\ last_call[2].bet = last_call[2].expected

TooManyErrors == "Too many errors during simulation"

\* C6: up to 10 exceptions the session goes on; the 11th ends it at once, with the
\* "Too many errors" message, and place_bet is not called again.
C6_ErrorBudget ==
    /\ errors <= ErrorBudget + 1
    /\ (results.error = TooManyErrors) <=> (errors = ErrorBudget + 1)
    /\ errors > ErrorBudget => pc \in {"finish", "done"}
    /\ (pc \in {"finish", "done"} /\ errors <= ErrorBudget)
          => \/ spin >= NumSpins
             \/ results.error \in {"Timeout", "Could not load module",
                                   "No strategy class found", "exception"}

\* C6 witness: the session given up after its 11th exception.
C6_Witness ==
    /\ errors = ErrorBudget + 1
    /\ results.error = TooManyErrors
    /\ pc = "done"

\* C7: a session ended by the timeout or by the error budget has success = False
\* and its file is collected among the failed ones.
C7_AbortedSessionIsFailure ==
    (pc = "done" /\ results.error \in {"Timeout", TooManyErrors})
        => /\ results.success = FALSE
           /\ collected = 1 =>
                 \E k \in 1..Len(failed_strategies) : failed_strategies[k] = results.file

Successful == Cardinality({k \in 1..Len(all_results) : all_results[k].success})
Failing    == n_files - Successful

\* C8: over a non-empty set of files the run is accepted exactly when
\* successful / considered >= 0.8 and at most 2 files are failing.
C8_AcceptedIff ==
    (verdict.returned /\ n_files > 0)
        => (verdict.value <=> (5 * Successful >= 4 * n_files /\ Failing <= 2))

\* C8 witness: 15 files, 12 successful, 3 failing in the three ways: the rate is
\* 80% and the run is rejected on the count.
C8_Witness ==
    /\ verdict.returned
    /\ n_files = 15
    /\ Failing = 3
    /\ Len(all_results) > Successful
    /\ Len(all_results) < n_files
    /\ verdict.value = FALSE

\* C9: the outcomes a session appends are those it gets when it runs alone: the
\* values of the seeded stream, in order, whatever the other worker does.
C9_OutcomesAsWhenAlone ==
    \A w \in Workers :
       workers[w].history = SubSeq(Stream, 1, Len(workers[w].history))

\* C10: when place_bet is called in a round, and until its decision is settled,
\* every outcome in the history was generated in an earlier round.
C10_DecisionBeforeOutcome ==
    pc \in {"call", "process"}
        => /\ generated_in < spin
           /\ Len(game_state.history) <= spin

\* C10 witness: a decision of the third round or later, returned on a history
\* whose newest outcome is the previous round's.
C10_Witness ==
    /\ pc = "process"
    /\ spin >= 2
    /\ generated_in = spin - 1
    /\ bet_info # NoneBet

FileNames == {"a", "b"}

Validated(name) == validation[name] # NoValidation

\* strategy_classes[0] of a module that has a candidate class
ValidatedClass(name) ==
    Head(SelectSeq(getmembers(directory[name].namespace), IsCandidate))

\* C11: when validate_strategy_file reports valid = True, get_defaults() of the
\* validated class returned a dict in which contributor_name and
\* strategy_description are present and are str values with a character that is
\* not whitespace.
C11_AdmittedHasTextMetadata ==
    \A name \in FileNames :
       (Validated(name) /\ validation[name].valid)
          => LET returned == ValidatedClass(name).get_defaults
             IN  /\ returned.kind = "returns"
                 /\ returned.value.type = "dict"
                 /\ \A i \in 1..Len(required_fields) :
                       /\ required_fields[i] \in DOMAIN returned.value.items
                       /\ returned.value.items[required_fields[i]].type = "str"
                       /\ strip(returned.value.items[required_fields[i]].chars) # <<>>

\* The module of the file was loaded and searched for classes.
Searched(name) ==
    /\ Validated(name)
    /\ \A i \in 1..Len(validation[name].errors) : validation[name].errors[i] # ImportFailed

Candidates(name) == SelectSeq(getmembers(directory[name].namespace), IsCandidate)

HasError(name, error) ==
    \E i \in 1..Len(validation[name].errors) : validation[name].errors[i] = error

HasWarning(name, warning) ==
    \E i \in 1..Len(validation[name].warnings) : validation[name].warnings[i] = warning

\* C12: for a module with more than one candidate class the result holds a warning
\* that lists the names of all of them, and its valid flag is the one the first
\* class alone gets.
C12_FirstClassDecides ==
    \A name \in FileNames :
       (Searched(name) /\ Len(Candidates(name)) > 1)
          => /\ HasWarning(name, <<"Multiple strategy classes found",
                                   Names(Candidates(name))>>)
             /\ validation[name].valid =
                   ValidateClasses(NewValidation(name), <<Head(Candidates(name))>>).valid

\* C12 witness: a valid result for a module whose first candidate is sound and
\* whose second candidate returns a list from get_defaults().
C12_Witness ==
    /\ Searched("a")
    /\ Len(Candidates("a")) = 2
    /\ Candidates("a")[2].get_defaults = ReturnsValue(ListValue)
    /\ validation["a"].valid
    /\ Len(validation["a"].warnings) = 1

\* C13: when get_defaults() of the validated class returns a value that is not a
\* dict, the result is returned with valid = False and the error
\* "get_defaults() must return a dictionary".
C13_NonDictDefaultsIsListedError ==
    \A name \in FileNames :
       (/\ Searched(name)
        /\ Candidates(name) # <<>>
        /\ ValidatedClass(name).get_defaults.kind = "returns"
        /\ ValidatedClass(name).get_defaults.value.type # "dict")
          => /\ validation[name].valid = FALSE
             /\ HasError(name, <<"get_defaults() must return a dictionary">>)

\* C13 witness: the result for a class whose get_defaults() returns a list, with
\* that error as its only one.
C13_Witness ==
    /\ Searched("a")
    /\ Candidates("a") # <<>>
    /\ ValidatedClass("a").get_defaults = ReturnsValue(ListValue)
    /\ validation["a"].valid = FALSE
    /\ validation["a"].errors = <<(<<"get_defaults() must return a dictionary">>)>>

\* The directory with every file but this one removed.
OnlyFile(name) == [n \in FileNames |-> IF n = name THEN directory[n] ELSE Absent]

\* C16: the valid flag and the errors returned for a file are those it gets when
\* it is the only file of the directory and the first one validated.
C16_VerdictOfTheFileAlone ==
    \A name \in FileNames :
       Validated(name)
          => LET alone == validate_strategy_file(OnlyFile(name), {}, name).result
             IN  /\ validation[name].valid = alone.valid
                 /\ validation[name].errors = alone.errors

\* C14: reset() leaves an ExampleStrategy in the state of a newly constructed
\* instance with the same overrides (consecutive_losses and last_bet_amount
\* included), so its decision on every game state is that of the new instance.
C14_ResetRestoresFreshState ==
    [][\A kwargs \in Overrides :
          (Reset /\ NewStrategy(kwargs).config = strategies[1].config)
             => /\ strategies'[1] = NewStrategy(kwargs)
                /\ \A gs \in GameStates :
                      place_bet(strategies'[1], gs) = place_bet(NewStrategy(kwargs), gs)]_vars

\* C14 witness: instance 1 after a doubled bet and a reset(): a call was made and
\* both counters are 0, which no place_bet call leaves behind.
C14_Witness ==
    /\ last_call[1] # NoCall
    /\ bet_amount_of(last_call[1].bet) >= 40
    /\ strategies[1].consecutive_losses = 0
    /\ strategies[1].last_bet_amount = 0

\* C15: when a place_bet call never returns and every future has been collected,
\* the file is among the failed ones and benchmark_all_strategies has returned its
\* verdict or can take its next step: it does not wait for the stuck worker.
C15_BatchDoesNotWaitForStuckWorker ==
    (pc = "stuck" /\ collected = n_files)
        => /\ \E k \in 1..Len(failed_strategies) : failed_strategies[k] = results.file
           /\ verdict.returned \/ ENABLED BenchNext

\* C18: a session that ends without an exception, a timeout or an abort has
\* appended one outcome in each of its num_spins rounds, whatever decisions the
\* strategy returned: spins_completed = num_spins.
C18_EveryRoundAppendsAnOutcome ==
    (pc = "done" /\ results.success /\ results.error = None /\ errors = 0)
        => /\ spin = NumSpins
           /\ results.metrics.spins_completed = NumSpins

\* C19: in a MockGameState that only add_result has changed, len(history) is
\* spin_count, and last_result is history[-1], or None on an empty history.
C19_HistoryCountsSpins ==
    /\ Len(game_state.history) = game_state.spin_count
    /\ game_state.last_result =
          IF game_state.history = <<>> THEN NoResult
          ELSE game_state.history[Len(game_state.history)]

\* C19 witness: a game state after three add_result calls or more whose newest
\* outcome differs from the one before.
C19_Witness ==
    /\ game_state.spin_count >= 3
    /\ game_state.history[Len(game_state.history)]
          # game_state.history[Len(game_state.history) - 1]
    /\ game_state.last_result = game_state.history[Len(game_state.history)]

HasDangerousCall(f) ==
    \E i \in 1..Len(f.nodes) :
       f.nodes[i].kind = "Call" /\ Called(f.nodes[i].func) \in dangerous_names

\* C20: the report of analyze_imports for a file that is read and parsed has
\* valid = True exactly when the file holds no deny-listed import, no call of
\* eval, exec, open or __import__ and no match of the file-I/O patterns.
C20_ValidIffNoFinding ==
    (report # NoReport /\ file.status = "ok")
        => (report.valid <=> /\ ~HasDenyListedImport(file)
                             /\ ~HasDangerousCall(file)
                             /\ file.text = {})

IsUnknown(name) ==
    TopLevel(name) \notin forbidden \cup allowed_stdlib \cup allowed_packages

\* The nodes without the imports that analyze_imports lists as unknown.
RECURSIVE WithoutUnknownImports(_)
WithoutUnknownImports(nodes) ==
    IF nodes = <<>> THEN <<>>
    ELSE LET node == Head(nodes)
             known == IF node.kind = "Import"
                      THEN SelectSeq(node.names, LAMBDA n : ~IsUnknown(n))
                      ELSE <<>>
         IN  (IF node.kind = "Import"
              THEN IF known = <<>> THEN <<>> ELSE <<[node EXCEPT !.names = known]>>
              ELSE IF node.kind = "ImportFrom" /\ node.module # NoModule
                      /\ IsUnknown(node.module)
                   THEN <<>>
                   ELSE <<node>>)
             \o WithoutUnknownImports(Tail(nodes))

\* The file and the content with everything removed that is reported as a warning.
FileWithoutWarnings == [file EXCEPT !.nodes = WithoutUnknownImports(@)]

ContentWithoutWarnings ==
    [content EXCEPT !.line_count = MaxLineCount, !.docstrings = TRUE, !.suspicious = {}]

\* The first candidate class alone, with a long docstring, the hinted signature
\* and the recommended fields.
ClassWithoutWarnings(cls) ==
    [cls EXCEPT
       !.doc = MinDocstring,
       !.place_bet = IF @.kind = "function" THEN Function(<<"self", "game_state">>) ELSE @,
       !.get_defaults =
          IF @.kind = "returns" /\ @.value.type = "dict"
          THEN ReturnsValue(DictValue(
                  [k \in DOMAIN @.value.items \cup {"bankroll", "base_bet", "target_profit"}
                     |-> IF k \in DOMAIN @.value.items THEN @.value.items[k]
                         ELSE IntValue(MinDocstring)]))
          ELSE @]

\* C17: the valid flag of check_strategy_requirements and of
\* validate_strategy_file is the one the same file gets with every warning-level
\* finding removed: unknown imports, more than 1000 lines, no docstring,
\* suspicious text, further candidate classes, missing recommended fields, the
\* place_bet signature.
C17_WarningsLeaveValidAlone ==
    /\ requirements # NoRequirements
          => requirements.valid =
                check_strategy_requirements(FileWithoutWarnings,
                                            ContentWithoutWarnings).valid
    /\ \A name \in FileNames :
          (Searched(name) /\ Candidates(name) # <<>>)
             => validation[name].valid =
                   ValidateModule(NewValidation(name),
                                  Module(<<ClassWithoutWarnings(ValidatedClass(name))>>)).valid

\* C17 witness: a file with three warnings and a module with four, both valid.
C17_Witness ==
    /\ requirements # NoRequirements
    /\ requirements.valid
    /\ Len(requirements.warnings) >= 3
    /\ Validated("a")
    /\ validation["a"].valid
    /\ Len(validation["a"].warnings) >= 4

\* C21: when validate_strategy_file reports valid = True, the class it validated
\* is a subclass of CommunityStrategy.
C21_AdmittedInheritsContract ==
    \A name \in FileNames :
       (Validated(name) /\ validation[name].valid)
          => issubclass(ValidatedClass(name), CommunityStrategy)

\* C22: a validated class whose place_bet is a function is reported valid only
\* when place_bet takes exactly one parameter after the receiver, and the name of
\* that parameter does not change the valid flag.
C22_ArityIsStructural ==
    \A name \in FileNames :
       (/\ Searched(name)
        /\ Candidates(name) # <<>>
        /\ ValidatedClass(name).place_bet.kind = "function")
          => LET cls == ValidatedClass(name)
                 renamed == [cls EXCEPT !.place_bet = Function(<<"self", "game_state">>)]
             IN  /\ Len(cls.place_bet.params) # 2 => ~validation[name].valid
                 /\ Len(cls.place_bet.params) = 2
                       => validation[name].valid =
                             ValidateClasses(NewValidation(name), <<renamed>>).valid

\* C23: the config of an instance holds, for every key of the keyword arguments it
\* was constructed with, the value given there, and for every other key of
\* get_defaults() the default, and no other key; this holds after any calls of
\* place_bet, get_info and reset and any writes into the dicts get_info returned.
C23_ConfigIsDefaultsOverridden ==
    \A i \in 1..2 :
       strategies[i] # NoInstance
          => /\ DOMAIN strategies[i].config = DOMAIN get_defaults \cup DOMAIN given[i]
             /\ \A k \in DOMAIN given[i] : strategies[i].config[k] = given[i][k]
             /\ \A k \in DOMAIN get_defaults \ DOMAIN given[i] :
                   strategies[i].config[k] = get_defaults[k]

\* C23 witness: instance 1 was constructed with base_bet = 20 and stop_loss = 50,
\* has placed a bet since, and the caller has overwritten base_bet in the dict
\* get_info returned.
C23_Witness ==
    /\ strategies[1] # NoInstance
    /\ given[1] = [base_bet |-> 20, stop_loss |-> 50]
    /\ last_call[1] # NoCall
    /\ info # NoInfo
    /\ info.config.base_bet = 99
    /\ strategies[1].config.base_bet = 20

\* C24: the report that benchmark_all_strategies has written holds, under
\* 'results', an entry for every strategy file considered.
C24_ReportHasEveryFile ==
    results_file # NoFile
       => \A name \in 1..n_files :
             \E i \in 1..Len(results_file.results) : results_file.results[i].file = name

Entries(list) == {list[i] : i \in 1..Len(list)}

\* C25: in the report of analyze_imports every entry of forbidden_imports and of
\* unknown_imports is an entry of imports, and no entry is in both lists.
C25_FlaggedAreDisjointSublists ==
    report # NoReport
       => /\ Entries(report.forbidden_imports) \subseteq Entries(report.imports)
          /\ Entries(report.unknown_imports) \subseteq Entries(report.imports)
          /\ Entries(report.forbidden_imports) \cap Entries(report.unknown_imports) = {}

\* The rounds of the session begun so far: a round counts from the call of the
\* strategy on, and the round that the exception budget ended counts too.
RoundsStarted ==
    IF pc \in {"call", "process", "stuck"}
          \/ results.error = "Too many errors during simulation"
    THEN spin + 1 ELSE spin

TimesSuccessful(name) ==
    Cardinality({i \in 1..Len(results_file.results) :
                    results_file.results[i].file = name /\ results_file.results[i].success})

TimesFailed(name) ==
    Cardinality({i \in 1..Len(results_file.summary.failed_strategies) :
                    results_file.summary.failed_strategies[i] = name})

\* C28: in the written report successful + failed = total_strategies, successful
\* is the number of successful entries, and every file considered is either one
\* successful entry or listed once among failed_strategies, never both.
C28_ReportCountsAddUp ==
    results_file # NoFile
       => /\ results_file.summary.successful + results_file.summary.failed
                = results_file.summary.total_strategies
          /\ results_file.summary.total_strategies = n_files
          /\ results_file.summary.failed = Len(results_file.summary.failed_strategies)
          /\ \A name \in 1..n_files :
                \/ TimesSuccessful(name) = 1 /\ TimesFailed(name) = 0
                \/ TimesSuccessful(name) = 0 /\ TimesFailed(name) = 1

\* C28 witness: the report of a run over five files, of which three succeeded, one
\* returned a failed result and one timed out or raised.
C28_Witness ==
    /\ results_file # NoFile
    /\ results_file.summary.total_strategies = 5
    /\ results_file.summary.successful = 3
    /\ results_file.summary.failed = 2
    /\ Len(results_file.results) = 4

ValidIffNoErrors(res) == res.valid <=> res.errors = <<>>

\* C29: in the reports of analyze_imports, of check_strategy_requirements and of
\* validate_strategy_file, valid is False exactly when errors is not empty.
C29_InvalidIffErrors ==
    /\ report # NoReport => ValidIffNoErrors(report)
    /\ requirements # NoRequirements => ValidIffNoErrors(requirements)
    /\ \A name \in FileNames : Validated(name) => ValidIffNoErrors(validation[name])

\* C30: when validate_strategy_file has validated a class of the file and
\* run_strategy_benchmark has found its strategy class in the same file, the two
\* are the same class.
C30_SameCanonicalClass ==
    (/\ Searched("a")
     /\ Candidates("a") # <<>>
     /\ benchmark_class # NoClass)
        => ValidatedClass("a") = benchmark_class

\* C26: in a session that drives a default ExampleStrategy, from the first None
\* decision on the game state stays as it was at that call, every later decision
\* is None, and the result reports the spins completed before it.
C26_FirstNoneIsAbsorbing ==
    first_none.seen
       => /\ game_state = first_none.game_state
          /\ pc = "process" => bet_info = NoneBet
          /\ results.success
                => results.metrics.spins_completed = first_none.game_state.spin_count

\* C26 witness: the session has run through all its rounds and reports fewer
\* spins, with rounds after the one of the first None.
C26_Witness ==
    /\ first_none.seen
    /\ pc = "done"
    /\ results.success
    /\ spin = ExampleSpins
    /\ first_none.spin + 1 < spin
    /\ results.metrics.spins_completed = first_none.spin

====
